---- MODULE Spec2Model ----
(***************************************************************************)
(* cargo-preset: a preset store kept as a directory tree.  One step of the *)
(* model is one run of the program (main, src/src/main.rs:58-157) on a     *)
(* file system that persists between the runs.                             *)
(*                                                                         *)
(* A path is a sequence of components from the root.  The file system fs   *)
(* is a function whose domain is the set of existing paths; a directory    *)
(* maps to "DIR", a regular file to its content.                           *)
(***************************************************************************)
EXTENDS Integers, Sequences, FiniteSets, TLC

MaxPaths == 2    \* most --files and --directories arguments of one add
MaxRuns == 2     \* runs of the program in one behaviour

VARIABLES
    fs,               \* the file system, which outlives the runs
    pc,               \* "idle": no process; "done": a run has just ended
    cmd,              \* args.command of the run
    current_presets,  \* the registry as the run read it
    status,           \* "ok" (exit code 0) or the error the run ended with
    out,              \* the lines the run printed on standard output
    runs              \* the number of runs so far

vars == <<fs, pc, cmd, current_presets, status, out, runs>>

-----------------------------------------------------------------------------
(* Paths and the file system                                               *)

Root == <<>>
HomeDir == <<"home">>
ConfigDir == <<"home", ".config">>
Store == <<"home", ".config", "cargo_preset">>
WorkDir == <<"w">>
EmptyDir == <<"e">>

NoPath == <<"?">>
DIR == "DIR"
Truncated == ""

Exists(f, p) == p \in DOMAIN f
IsDir(f, p) == p \in DOMAIN f /\ f[p] = DIR
IsFile(f, p) == p \in DOMAIN f /\ f[p] # DIR

Parent(p) == IF p = <<>> THEN <<>> ELSE SubSeq(p, 1, Len(p) - 1)
Last(s) == s[Len(s)]
IsPrefix(p, q) == Len(p) <= Len(q) /\ SubSeq(q, 1, Len(p)) = p

Children(f, p) == {q \in DOMAIN f : Len(q) = Len(p) + 1 /\ IsPrefix(p, q)}
Descendants(f, p) == {q \in DOMAIN f : Len(q) > Len(p) /\ IsPrefix(p, q)}

\* The part of f below p, keyed by the path relative to p.
Subtree(f, p) ==
    [r \in {SubSeq(q, Len(p) + 1, Len(q)) : q \in Descendants(f, p)} |-> f[p \o r]]

Put(f, p, v) == [q \in DOMAIN f \cup {p} |-> IF q = p THEN v ELSE f[q]]
Delete(f, S) == [q \in DOMAIN f \ S |-> f[q]]

\* Path arguments and PathBuf values: absolute or relative, with components.
Rel(c) == [abs |-> FALSE, comps |-> c]
Abs(c) == [abs |-> TRUE, comps |-> c]

\* PathBuf::push: an absolute argument replaces the buffer.
Push(pb, arg) == IF arg.abs THEN arg ELSE [abs |-> pb.abs, comps |-> pb.comps \o arg.comps]
\* PathBuf::pop: drops the last component.
Pop(pb) == [abs |-> pb.abs, comps |-> Parent(pb.comps)]

\* Path resolution as the kernel does it: every component is looked up in
\* an existing directory; the last component need not exist.
RECURSIVE Walk(_, _, _)
Walk(f, cur, comps) ==
    IF comps = <<>> THEN cur
    ELSE IF ~IsDir(f, cur) THEN NoPath
    ELSE LET c == Head(comps)
             nxt == IF c = "." THEN cur
                    ELSE IF c = ".." THEN Parent(cur)
                    ELSE Append(cur, c)
         IN  Walk(f, nxt, Tail(comps))

Resolve(f, cwd, pb) == Walk(f, IF pb.abs THEN Root ELSE cwd, pb.comps)

Ok(f) == [fs |-> f, err |-> "ok"]
Fail(f, e) == [fs |-> f, err |-> e]

-----------------------------------------------------------------------------
(* read_dir: the order of the entries is the file system's; a run sees     *)
(* them in ascending or in descending name order.                          *)

NameOrder == <<".config", "a.txt", "c.txt", "cargo_preset", "d", "e",
               "home", "p", "q", "s", "w", "x">>
Rank(n) == CHOOSE i \in 1..Len(NameOrder) : NameOrder[i] = n
Orders == {"asc", "desc"}

RECURSIVE SortPaths(_, _)
SortPaths(S, order) ==
    IF S = {} THEN <<>>
    ELSE LET first == CHOOSE p \in S : \A q \in S :
                         IF order = "asc" THEN Rank(Last(p)) <= Rank(Last(q))
                                          ELSE Rank(Last(p)) >= Rank(Last(q))
         IN  <<first>> \o SortPaths(S \ {first}, order)

ReadDir(f, p, order) == SortPaths(Children(f, p), order)

-----------------------------------------------------------------------------
(* The library calls the handlers make                                     *)

\* std::fs::create_dir(path): fails when the path exists or its parent is
\* missing.
CreateDir(f, pb) ==
    LET p == Resolve(f, Root, pb)
    IN  IF p = NoPath THEN Fail(f, "NotFound")
        ELSE IF Exists(f, p) THEN Fail(f, "AlreadyExists")
        ELSE Ok(Put(f, p, DIR))

\* std::fs::copy on resolved paths.  The source is opened first, then the
\* destination is opened with create and truncate: copying a file onto
\* itself leaves it empty.
CopyPath(f, src, dst) ==
    IF ~Exists(f, src) THEN Fail(f, "NotFound")
    ELSE IF IsDir(f, src) THEN Fail(f, "InvalidInput")
    ELSE IF dst = NoPath \/ ~IsDir(f, Parent(dst)) THEN Fail(f, "NotFound")
    ELSE IF IsDir(f, dst) THEN Fail(f, "IsADirectory")
    ELSE IF dst = src THEN Ok(Put(f, dst, Truncated))
    ELSE Ok(Put(f, dst, f[src]))

\* std::fs::copy(from, to) as called by add: from is relative to the
\* working directory unless absolute, to is the config buffer.
StdCopy(f, cwd, from, to) == CopyPath(f, Resolve(f, cwd, from), Resolve(f, Root, to))

\* fs_extra::file::copy(from, to, options): refuses an existing destination
\* unless options.overwrite (skip_exist is never set by the program).
FileCopy(f, src, dst, overwrite) ==
    IF ~Exists(f, src) THEN Fail(f, "NotFound")
    ELSE IF ~IsFile(f, src) THEN Fail(f, "InvalidFile")
    ELSE IF ~overwrite /\ dst # NoPath /\ Exists(f, dst) THEN Fail(f, "AlreadyExists")
    ELSE CopyPath(f, src, dst)

\* std::fs::create_dir_all on base \o rel, base being resolved: creates
\* every missing directory on the way; fails on a regular file in the way.
RECURSIVE CreateAll(_, _, _)
CreateAll(f, base, rel) ==
    IF base = NoPath \/ IsFile(f, base) THEN Fail(f, "NotADirectory")
    ELSE LET f1 == IF Exists(f, base) THEN f ELSE Put(f, base, DIR)
         IN  IF rel = <<>> THEN Ok(f1)
             ELSE CreateAll(f1, Append(base, Head(rel)), Tail(rel))

\* fs_extra::dir::get_dir_content2(from): the directories (from first) and
\* the files below from, depth first in read_dir order.
RECURSIVE DirContent(_, _, _)
RECURSIVE DirContentOf(_, _, _)
DirContentOf(f, entries, order) ==
    IF entries = <<>> THEN [directories |-> <<>>, files |-> <<>>]
    ELSE LET h == DirContent(f, Head(entries), order)
             t == DirContentOf(f, Tail(entries), order)
         IN  [directories |-> h.directories \o t.directories,
              files |-> h.files \o t.files]
DirContent(f, p, order) ==
    IF IsDir(f, p)
    THEN LET sub == DirContentOf(f, ReadDir(f, p, order), order)
         IN  [directories |-> <<p>> \o sub.directories, files |-> sub.files]
    ELSE [directories |-> <<>>, files |-> <<p>>]

\* The two loops of fs_extra::dir::copy: every directory of the content is
\* created under to unless a path of that name exists, then every file is
\* copied; the first error ends the copy and keeps what was done.
RECURSIVE MakeDirs(_, _, _, _)
MakeDirs(f, dirs, from, to) ==
    IF dirs = <<>> THEN Ok(f)
    ELSE LET rel == SubSeq(Head(dirs), Len(from) + 1, Len(Head(dirs)))
             r == IF Exists(f, to \o rel) THEN Ok(f) ELSE CreateAll(f, to, rel)
         IN  IF r.err # "ok" THEN r ELSE MakeDirs(r.fs, Tail(dirs), from, to)

RECURSIVE CopyFiles(_, _, _, _, _)
CopyFiles(f, files, from, to, overwrite) ==
    IF files = <<>> THEN Ok(f)
    ELSE LET rel == SubSeq(Head(files), Len(from) + 1, Len(Head(files)))
             r == FileCopy(f, Head(files), to \o rel, overwrite)
         IN  IF r.err # "ok" THEN r ELSE CopyFiles(r.fs, Tail(files), from, to, overwrite)

\* fs_extra::dir::copy(from, to, options) with options = [copy_inside,
\* content_only, overwrite].  Unless content_only, an existing to receives
\* the directory under its own name (the last component of from).
DirCopy(f, cwd, from, to, options, order) ==
    LET src == Resolve(f, cwd, from)
        to0 == Resolve(f, cwd, to)
        to1 == IF (Exists(f, to0) \/ ~options.copy_inside) /\ ~options.content_only
               THEN Push(to, Rel(<<Last(from.comps)>>))
               ELSE to
        dst == Resolve(f, cwd, to1)
        content == DirContent(f, src, order)
        made == MakeDirs(f, content.directories, src, dst)
    IN  IF ~Exists(f, src) THEN Fail(f, "NotFound")
        ELSE IF ~IsDir(f, src) \/ from.comps = <<>> THEN Fail(f, "InvalidFolder")
        ELSE IF dst = NoPath THEN Fail(f, "NotFound")
        ELSE IF made.err # "ok" THEN made
        ELSE CopyFiles(made.fs, content.files, src, dst, options.overwrite)

\* CopyOptions::new(): overwrite, skip_exist, copy_inside and content_only
\* are all false.
CopyOptionsNew == [overwrite |-> FALSE, copy_inside |-> FALSE, content_only |-> FALSE]

\* A remove_dir_all that empties the directory and leaves it in place.
RemoveDirAllContentsOnly(f, pb) ==
    LET p == Resolve(f, Root, pb)
    IN  IF p = NoPath \/ ~Exists(f, p) THEN Fail(f, "NotFound")
        ELSE IF IsFile(f, p) THEN Fail(f, "NotADirectory")
        ELSE Ok(Delete(f, Descendants(f, p)))

\* std::fs::remove_dir_all(path): the path must be a directory; everything
\* below it is deleted, then the directory itself is removed by name, which
\* the kernel refuses for a name ending in "." or "..".
RemoveDirAll(f, pb) ==
    LET p == Resolve(f, Root, pb)
        emptied == Delete(f, Descendants(f, p))
    IN  IF p = NoPath \/ ~Exists(f, p) THEN Fail(f, "NotFound")
        ELSE IF IsFile(f, p) THEN Fail(f, "NotADirectory")
        ELSE IF pb.comps # <<>> /\ Last(pb.comps) = "." THEN Fail(emptied, "InvalidInput")
        ELSE IF pb.comps # <<>> /\ Last(pb.comps) = ".." THEN Fail(emptied, "DirectoryNotEmpty")
        ELSE Ok(Delete(emptied, {p}))

-----------------------------------------------------------------------------
(* The program                                                             *)

\* A printed line.  level is the number of marker characters before the
\* name, dir tells whether the name is followed by "/"; path is the entry
\* the line was printed for (not part of the text).
Line(level, name, dir, path) == [level |-> level, name |-> name, dir |-> dir, path |-> path]
Header(text) == Line(0, text, FALSE, <<>>)

\* main, the store locator: $HOME/.config must exist, cargo_preset under it
\* is created when absent.  HOME is set and --debug is not given.
Locate(f) ==
    IF ~Exists(f, ConfigDir) THEN Fail(f, "NoConfigDir")
    ELSE IF ~Exists(f, Store) THEN CreateDir(f, Abs(Store))
    ELSE Ok(f)

\* main, current_presets: the names of the entries of the store.
RECURSIVE FileNames(_)
FileNames(paths) ==
    IF paths = <<>> THEN <<>> ELSE <<Last(Head(paths))>> \o FileNames(Tail(paths))
CurrentPresets(f, order) == FileNames(ReadDir(f, Store, order))

\* A contains that finds nothing.
ContainsNever(presets, name) == FALSE

\* current_presets.contains(&name): name is the argument string, given here
\* by its components; an entry name is one component.
Contains(presets, name) ==
    Len(name) = 1 /\ \E i \in 1..Len(presets) : presets[i] = name[1]

\* An apply whose copy options lack content_only: the preset arrives as a
\* directory of its own name.
ApplyUnderName(f, cwd, name, presets, order) ==
    LET config == Push(Abs(Store), Rel(name))
        options == [CopyOptionsNew EXCEPT !.copy_inside = TRUE]
    IN  IF ~Contains(presets, name) THEN Fail(f, "PresetNotFound")
        ELSE DirCopy(f, cwd, config, Abs(cwd), options, order)

\* Command::Apply
Apply(f, cwd, name, presets, order) ==
    LET config == Push(Abs(Store), Rel(name))
        options == [CopyOptionsNew EXCEPT !.copy_inside = TRUE, !.content_only = TRUE]
    IN  IF ~Contains(presets, name) THEN Fail(f, "PresetNotFound")
        ELSE DirCopy(f, cwd, config, Abs(cwd), options, order)

\* Command::List
RECURSIVE ListLines(_)
ListLines(presets) ==
    IF presets = <<>> THEN <<>>
    ELSE <<Line(0, Head(presets), FALSE, Append(Store, Head(presets)))>>
         \o ListLines(Tail(presets))
List(presets) == <<Header("Available presets: ")>> \o ListLines(presets)

\* Command::Add, the loop over paths.files: config.push(&file), fs::copy,
\* config.pop().  Returns the file system, the error and the config buffer.
\* The two eprintln! lines go to standard error and are not part of out.
RECURSIVE AddFiles(_, _, _, _)
AddFiles(f, cwd, config, files) ==
    IF files = <<>> THEN [fs |-> f, err |-> "ok", config |-> config]
    ELSE LET pushed == Push(config, Head(files))
             r == StdCopy(f, cwd, Head(files), pushed)
         IN  IF r.err # "ok" THEN [fs |-> r.fs, err |-> r.err, config |-> pushed]
             ELSE AddFiles(r.fs, cwd, Pop(pushed), Tail(files))

\* A directories loop whose copy options carry content_only as well.
RECURSIVE AddDirectoriesContentOnly(_, _, _, _, _)
AddDirectoriesContentOnly(f, cwd, config, directories, order) ==
    IF directories = <<>> THEN Ok(f)
    ELSE LET opts == [CopyOptionsNew EXCEPT !.copy_inside = TRUE, !.content_only = TRUE]
             r == DirCopy(f, cwd, Head(directories), config, opts, order)
         IN  IF r.err # "ok" THEN r
             ELSE AddDirectoriesContentOnly(r.fs, cwd, config, Tail(directories), order)

\* Command::Add, the loop over paths.directories.
RECURSIVE AddDirectories(_, _, _, _, _)
AddDirectories(f, cwd, config, directories, order) ==
    IF directories = <<>> THEN Ok(f)
    ELSE LET opts == [CopyOptionsNew EXCEPT !.copy_inside = TRUE]
             r == DirCopy(f, cwd, Head(directories), config, opts, order)
         IN  IF r.err # "ok" THEN r
             ELSE AddDirectories(r.fs, cwd, config, Tail(directories), order)

\* An add that never creates the preset directory.
AddNoCreate(f, cwd, name, files, directories, presets, order) ==
    LET config == Push(Abs(Store), Rel(name))
        copied == AddFiles(f, cwd, config, files)
    IN  IF Contains(presets, name) THEN Fail(f, "PresetExists")
        ELSE IF copied.err # "ok" THEN Fail(copied.fs, copied.err)
        ELSE AddDirectories(copied.fs, cwd, copied.config, directories, order)

\* An add that removes the new preset directory when a file copy fails.
AddWithCleanup(f, cwd, name, files, directories, presets, order) ==
    LET config == Push(Abs(Store), Rel(name))
        made == CreateDir(f, config)
        copied == AddFiles(made.fs, cwd, config, files)
    IN  IF Contains(presets, name) THEN Fail(f, "PresetExists")
        ELSE IF made.err # "ok" THEN made
        ELSE IF copied.err # "ok"
             THEN Fail(RemoveDirAll(copied.fs, config).fs, copied.err)
        ELSE AddDirectories(copied.fs, cwd, copied.config, directories, order)

\* Command::Add
Add(f, cwd, name, files, directories, presets, order) ==
    LET config == Push(Abs(Store), Rel(name))
        made == CreateDir(f, config)
        copied == AddFiles(made.fs, cwd, config, files)
    IN  IF Contains(presets, name) THEN Fail(f, "PresetExists")
        ELSE IF made.err # "ok" THEN made
        ELSE IF copied.err # "ok" THEN Fail(copied.fs, copied.err)
        ELSE AddDirectories(copied.fs, cwd, copied.config, directories, order)

\* Command::Remove
Remove(f, name) == RemoveDirAll(f, Push(Abs(Store), Rel(name)))

\* print_dir(level, path)
RECURSIVE print_dir(_, _, _, _)
RECURSIVE PrintEntries(_, _, _, _)
PrintEntries(f, level, entries, order) ==
    IF entries = <<>> THEN <<>>
    ELSE LET e == Head(entries)
         IN  (IF IsDir(f, e)
              THEN <<Line(level, Last(e), TRUE, e)>> \o print_dir(f, level + 1, e, order)
              ELSE <<Line(level, Last(e), FALSE, e)>>)
             \o PrintEntries(f, level, Tail(entries), order)
print_dir(f, level, path, order) == PrintEntries(f, level, ReadDir(f, path, order), order)

\* Command::Inspect: the entries of the preset directory are printed with
\* one marker, the entries of a subdirectory by print_dir(1, ...).
RECURSIVE InspectEntries(_, _, _)
InspectEntries(f, entries, order) ==
    IF entries = <<>> THEN <<>>
    ELSE LET e == Head(entries)
         IN  (IF IsDir(f, e)
              THEN <<Line(1, Last(e), TRUE, e)>> \o print_dir(f, 1, e, order)
              ELSE <<Line(1, Last(e), FALSE, e)>>)
             \o InspectEntries(f, Tail(entries), order)
Inspect(f, name, order) ==
    LET p == Resolve(f, Root, Push(Abs(Store), Rel(name)))
        header == <<Header("Contents of")>>
    IN  IF ~Exists(f, p) THEN [err |-> "NotFound", out |-> header]
        ELSE IF ~IsDir(f, p) THEN [err |-> "NotADirectory", out |-> header]
        ELSE [err |-> "ok", out |-> header \o InspectEntries(f, ReadDir(f, p, order), order)]

-----------------------------------------------------------------------------
(* Inputs                                                                  *)

SeqsUpTo(S, n) == UNION {[1..k -> S] : k \in 0..n}

\* Name arguments by their components: p, q, the empty string, "..", "p/d".
Names == {<<"p">>, <<"q">>, <<>>, <<"..">>, <<"p", "d">>}
\* --files arguments: a file of the working directory, a missing file, a
\* nested relative path and an absolute path.
Files == {Rel(<<"a.txt">>), Rel(<<"nope">>), Rel(<<"d", "c.txt">>), Abs(<<"w", "a.txt">>)}
\* --directories arguments: a directory tree of the working directory.
Directories == {Rel(<<"d">>)}
\* The lists an add is given.
FileLists == SeqsUpTo(Files, MaxPaths)
DirectoryLists == SeqsUpTo(Directories, MaxPaths)
\* The directories the program is started from.
Cwds == {WorkDir, EmptyDir}

\* The file system before the first run: $HOME/.config without a store, a
\* working directory w holding a.txt and the tree d, and an empty
\* directory e.
InitFs ==
    (Root :> DIR) @@ (HomeDir :> DIR) @@ (ConfigDir :> DIR)
    @@ (WorkDir :> DIR) @@ (EmptyDir :> DIR)
    @@ (<<"w", "a.txt">> :> "hello")
    @@ (<<"w", "d">> :> DIR) @@ (<<"w", "d", "c.txt">> :> "cc")
    @@ (<<"w", "d", "s">> :> DIR) @@ (<<"w", "d", "s", "x">> :> "xx")

Command(op, name, files, directories, cwd) ==
    [op |-> op, name |-> name, files |-> files, directories |-> directories, cwd |-> cwd]
NoCommand == Command("none", <<>>, <<>>, <<>>, WorkDir)

Init ==
    /\ fs = InitFs
    /\ pc = "idle"
    /\ cmd = NoCommand
    /\ current_presets = <<>>
    /\ status = "ok"
    /\ out = <<>>
    /\ runs = 0

-----------------------------------------------------------------------------
(* What the claims speak of                                                *)

\* A preset name: a string that can name one entry of the store directory.
PresetName(n) == Len(n) = 1 /\ n[1] \notin {".", ".."}
PresetDir(n) == Store \o n

\* The names a List run prints below its header, read_dir order given.
ListedNames(f, order) ==
    LET lines == List(CurrentPresets(Locate(f).fs, order))
    IN  [i \in 1..(Len(lines) - 1) |-> lines[i + 1].name]
Occurrences(s, x) == Cardinality({i \in 1..Len(s) : s[i] = x})

\* A --files argument that names a file of the working directory itself.
PlainFile(file) == ~file.abs /\ Len(file.comps) = 1 /\ file.comps[1] \notin {".", ".."}
\* A --files argument that leaves the config buffer inside the preset
\* directory: relative and free of "..".
StaysInside(file) == ~file.abs /\ \A k \in 1..Len(file.comps) : file.comps[k] # ".."

\* The file system an add of name from cwd has made when it reaches
\* files[i]: the store located, the preset directory created, the files
\* before files[i] copied.  [fs, err, config] as AddFiles returns it.
BeforeFile(f, cwd, name, files, i) ==
    LET config == Push(Abs(Store), Rel(name))
    IN  AddFiles(CreateDir(Locate(f).fs, config).fs, cwd, config, SubSeq(files, 1, i - 1))
\* The add fails at files[i] because the source file does not exist.
SourceMissingAt(f, cwd, name, files, i) ==
    LET before == BeforeFile(f, cwd, name, files, i)
    IN  /\ before.err = "ok"
        /\ ~Exists(before.fs, Resolve(before.fs, cwd, files[i]))

\* The regular files below directory p, by their paths relative to p.
FilesUnder(f, p) == {r \in DOMAIN Subtree(f, p) : IsFile(f, p \o r)}

-----------------------------------------------------------------------------
(* One run of the program per step, from the start of main to its return   *)

\* A run starts when no process is running.
Start == pc = "idle" /\ runs < MaxRuns

\* The part of main every command shares: the locator and the registry
\* read come first and a failure of the locator ends the run; r is what
\* the handler returns, [fs, err, out].
Located == Locate(fs)
Registry(order) == IF Located.err = "ok" THEN CurrentPresets(Located.fs, order) ELSE <<>>
Main(order, r) ==
    LET res == IF Located.err # "ok"
               THEN [fs |-> Located.fs, err |-> Located.err, out |-> <<>>]
               ELSE r
    IN  /\ pc' = "done"
        /\ runs' = runs + 1
        /\ current_presets' = Registry(order)
        /\ fs' = res.fs
        /\ status' = res.err
        /\ out' = res.out

Silent(r) == [fs |-> r.fs, err |-> r.err, out |-> <<>>]

RunApply ==
    /\ Start
    /\ \E name \in Names, cwd \in Cwds, order \in Orders :
           /\ Main(order, Silent(Apply(Located.fs, cwd, name, Registry(order), order)))
           /\ cmd' = Command("apply", name, <<>>, <<>>, cwd)

RunList ==
    /\ Start
    /\ \E order \in Orders :
           /\ Main(order, [fs |-> Located.fs, err |-> "ok", out |-> List(Registry(order))])
           /\ cmd' = Command("list", <<>>, <<>>, <<>>, WorkDir)

RunAdd ==
    /\ Start
    /\ \E name \in Names, cwd \in Cwds,
          files \in FileLists, directories \in DirectoryLists :
           \E order \in IF directories = <<>> THEN {"asc"} ELSE Orders :
               /\ files # <<>> \/ directories # <<>>
               /\ Len(files) + Len(directories) <= MaxPaths
               /\ Main(order, Silent(Add(Located.fs, cwd, name, files, directories,
                                         Registry(order), order)))
               /\ cmd' = Command("add", name, files, directories, cwd)

RunRemove ==
    /\ Start
    /\ \E name \in Names :
           /\ Main("asc", Silent(Remove(Located.fs, name)))
           /\ cmd' = Command("remove", name, <<>>, <<>>, WorkDir)

RunInspect ==
    /\ Start
    /\ \E name \in Names, order \in Orders :
           /\ Main(order, [fs |-> Located.fs] @@ Inspect(Located.fs, name, order))
           /\ cmd' = Command("inspect", name, <<>>, <<>>, WorkDir)

\* The process ends: what it held in memory is gone, the file system stays.
Exit ==
    /\ pc = "done"
    /\ pc' = "idle"
    /\ cmd' = NoCommand
    /\ current_presets' = <<>>
    /\ status' = "ok"
    /\ out' = <<>>
    /\ UNCHANGED <<fs, runs>>

Next == RunApply \/ RunList \/ RunAdd \/ RunRemove \/ RunInspect \/ Exit

Spec == Init /\ [][Next]_vars

-----------------------------------------------------------------------------
(* Claims                                                                  *)

\* C1: for every preset name n that is not an entry of the store, after
\* the run of Add(n, files, directories) a List prints n exactly once among
\* the presets, in whatever order the directory is read and whether or not
\* the copies of the add succeeded.
C1_AddThenListOnce ==
    (pc = "done" /\ cmd.op = "add" /\ PresetName(cmd.name)
        /\ ~Contains(current_presets, cmd.name))
    => \A order \in Orders : Occurrences(ListedNames(fs, order), cmd.name[1]) = 1

\* C1 witness: q was added next to the existing preset p.
C1_Witness ==
    /\ pc = "done" /\ cmd.op = "add" /\ cmd.name = <<"q">> /\ status = "ok"
    /\ current_presets = <<"p">>
    /\ ListedNames(fs, "asc") = <<"p", "q">>

\* C2: Add(n, files, directories) run when n is an entry of the store ends
\* with the error "preset already exists", and the files and
\* subdirectories of preset n are the same after the run as before it.
C2_AddExistingFails ==
    [][(cmd'.op = "add" /\ Len(cmd'.name) = 1 /\ Exists(fs, PresetDir(cmd'.name)))
        => /\ status' = "PresetExists"
           /\ Exists(fs', PresetDir(cmd'.name))
           /\ fs'[PresetDir(cmd'.name)] = fs[PresetDir(cmd'.name)]
           /\ Subtree(fs', PresetDir(cmd'.name)) = Subtree(fs, PresetDir(cmd'.name))]_vars

\* C2 witness: a second add of p, with other arguments than the tree it
\* holds, was refused.
C2_Witness ==
    /\ pc = "done" /\ cmd.op = "add" /\ cmd.name = <<"p">>
    /\ status = "PresetExists"
    /\ cmd.files = <<Rel(<<"a.txt">>)>>
    /\ IsFile(fs, <<"home", ".config", "cargo_preset", "p", "d", "c.txt">>)
    /\ ~Exists(fs, <<"home", ".config", "cargo_preset", "p", "a.txt">>)

\* C3: after a Remove(n) that removed the preset, and after one that found
\* no entry n, a List does not print n; and Remove(n) run when the store
\* holds no directory n ends with an error.
C3_RemoveThenList ==
    [][(cmd'.op = "remove" /\ PresetName(cmd'.name))
        => /\ (status' = "ok" \/ ~Exists(fs, PresetDir(cmd'.name)))
                => \A order \in Orders :
                       Occurrences(ListedNames(fs', order), cmd'.name[1]) = 0
           /\ ~IsDir(fs, PresetDir(cmd'.name)) => status' # "ok"]_vars

\* C3 witness: the preset p of the registry was removed.
C3_Witness ==
    /\ pc = "done" /\ cmd.op = "remove" /\ cmd.name = <<"p">> /\ status = "ok"
    /\ Contains(current_presets, <<"p">>)
    /\ ~Exists(fs, PresetDir(<<"p">>))

\* C3 witness of the error case: nothing named q to remove.
C3_WitnessMissing ==
    /\ pc = "done" /\ cmd.op = "remove" /\ cmd.name = <<"q">> /\ status = "NotFound"
    /\ current_presets = <<"p">>

\* C4: for every preset n of the registry, after an Apply(n) that ended
\* without error every file at relative path r of the preset is a file at
\* r in the working directory (not below a directory named n), and where
\* nothing existed at r before, the file has the content of the preset's.
C4_ApplyCopiesFiles ==
    [][(cmd'.op = "apply" /\ Len(cmd'.name) = 1 /\ Exists(fs, PresetDir(cmd'.name))
            /\ status' = "ok")
        => \A r \in FilesUnder(fs, PresetDir(cmd'.name)) :
               /\ IsFile(fs', cmd'.cwd \o r)
               /\ ~Exists(fs, cmd'.cwd \o r)
                    => fs'[cmd'.cwd \o r] = fs[PresetDir(cmd'.name) \o r]]_vars

\* C4 witness: p, holding the tree d, was applied in the empty directory.
C4_Witness ==
    /\ pc = "done" /\ cmd.op = "apply" /\ cmd.name = <<"p">> /\ cmd.cwd = EmptyDir
    /\ status = "ok"
    /\ IsFile(fs, <<"e", "d", "s", "x">>) /\ fs[<<"e", "d", "s", "x">>] = "xx"
    /\ fs[<<"e", "d", "c.txt">>] = fs[<<"home", ".config", "cargo_preset", "p", "d", "c.txt">>]

\* C5: when the working directory holds a file at the relative path of a
\* file of preset n, Apply(n) ends without error and every file of the
\* preset is in the working directory with the preset's content.
C5_ApplyOverwrites ==
    [][(cmd'.op = "apply" /\ Len(cmd'.name) = 1 /\ IsDir(fs, PresetDir(cmd'.name))
            /\ \E r \in FilesUnder(fs, PresetDir(cmd'.name)) : IsFile(fs, cmd'.cwd \o r))
        => /\ status' = "ok"
           /\ \A r \in FilesUnder(fs, PresetDir(cmd'.name)) :
                  /\ IsFile(fs', cmd'.cwd \o r)
                  /\ fs'[cmd'.cwd \o r] = fs[PresetDir(cmd'.name) \o r]]_vars

\* C6: after an Add(n, files, directories) of a new preset name n that
\* ended without error, for every path of files some file below <store>/n
\* has the content the source file had.
C6_AddCopiesEveryFile ==
    [][(cmd'.op = "add" /\ PresetName(cmd'.name) /\ ~Exists(fs, PresetDir(cmd'.name))
            /\ status' = "ok")
        => \A i \in 1..Len(cmd'.files) :
               LET src == Resolve(fs, cmd'.cwd, cmd'.files[i])
               IN  /\ IsFile(fs, src)
                   /\ \E q \in Descendants(fs', PresetDir(cmd'.name)) :
                          fs'[q] = fs[src]]_vars

\* C7: an Inspect(n) that ended without error printed, after the header,
\* one line per file and directory below the preset, depth first (the lines
\* of a directory's descendants follow its line at once), a directory's
\* line marked as such, and lines of entries at different depths carry
\* different numbers of marker characters.
InspectDepth(line) == Len(line.path) - Len(PresetDir(cmd.name)) - 1
C7_InspectTree ==
    (pc = "done" /\ cmd.op = "inspect" /\ PresetName(cmd.name) /\ status = "ok")
    => LET lines == Tail(out)
           below == Descendants(fs, PresetDir(cmd.name))
       IN  /\ Len(lines) = Cardinality(below)
           /\ {lines[i].path : i \in 1..Len(lines)} = below
           /\ \A i \in 1..Len(lines) :
                  /\ lines[i].name = Last(lines[i].path)
                  /\ lines[i].dir = IsDir(fs, lines[i].path)
                  /\ {lines[j].path : j \in (i + 1)..(i + Cardinality(Descendants(fs, lines[i].path)))}
                        = Descendants(fs, lines[i].path)
           /\ \A i, j \in 1..Len(lines) :
                  InspectDepth(lines[i]) # InspectDepth(lines[j])
                      => lines[i].level # lines[j].level

\* C7 (the enumeration alone): one line per entry, depth first, directories
\* marked.  What C7 adds to this is the indentation.
C7_InspectEnumerates ==
    (pc = "done" /\ cmd.op = "inspect" /\ PresetName(cmd.name) /\ status = "ok")
    => LET lines == Tail(out)
           below == Descendants(fs, PresetDir(cmd.name))
       IN  /\ Len(lines) = Cardinality(below)
           /\ {lines[i].path : i \in 1..Len(lines)} = below
           /\ \A i \in 1..Len(lines) :
                  /\ lines[i].dir = IsDir(fs, lines[i].path)
                  /\ {lines[j].path : j \in (i + 1)..(i + Cardinality(Descendants(fs, lines[i].path)))}
                        = Descendants(fs, lines[i].path)

\* C8: after an Add(n, files, directories) of a new preset name n that
\* ended without error, for every directory d of directories every entry
\* at relative path r inside d exists at <store>/n/r with the same content.
C8_AddCopiesDirContents ==
    [][(cmd'.op = "add" /\ PresetName(cmd'.name) /\ ~Exists(fs, PresetDir(cmd'.name))
            /\ status' = "ok")
        => \A i \in 1..Len(cmd'.directories) :
               LET src == Resolve(fs, cmd'.cwd, cmd'.directories[i])
               IN  \A r \in DOMAIN Subtree(fs, src) :
                       /\ Exists(fs', PresetDir(cmd'.name) \o r)
                       /\ fs'[PresetDir(cmd'.name) \o r] = fs[src \o r]]_vars

\* C8 amended: after an Add(n, files, directories) of a new preset name n
\* that ended without error, none of the files being absolute or holding
\* "..", for every directory d of directories, b being the last component
\* of d, <store>/n/b is a directory and every entry at relative path r
\* inside d exists at <store>/n/b/r with the same content.
C8_AddCopiesDirUnderItsName ==
    [][(cmd'.op = "add" /\ PresetName(cmd'.name) /\ ~Exists(fs, PresetDir(cmd'.name))
            /\ status' = "ok"
            /\ \A k \in 1..Len(cmd'.files) : StaysInside(cmd'.files[k]))
        => \A i \in 1..Len(cmd'.directories) :
               LET src == Resolve(fs, cmd'.cwd, cmd'.directories[i])
                   dst == PresetDir(cmd'.name) \o <<Last(cmd'.directories[i].comps)>>
               IN  /\ IsDir(fs', dst)
                   /\ \A r \in DOMAIN Subtree(fs, src) :
                          /\ Exists(fs', dst \o r)
                          /\ fs'[dst \o r] = fs[src \o r]]_vars

\* C8 witness: p was added from a file and the tree d.
C8_Witness ==
    /\ pc = "done" /\ cmd.op = "add" /\ cmd.name = <<"p">> /\ status = "ok"
    /\ cmd.files = <<Rel(<<"a.txt">>)>> /\ cmd.directories = <<Rel(<<"d">>)>>
    /\ fs[<<"home", ".config", "cargo_preset", "p", "d", "s", "x">>] = "xx"
    /\ ~Exists(fs, <<"home", ".config", "cargo_preset", "p", "s">>)

\* C9: when an Add(n, files, directories) of a new preset name n fails at
\* a source file that does not exist, nothing is rolled back: the file
\* system is the one the steps before the failing copy left, with the
\* preset directory and, under their names, the files of the working
\* directory copied before; a List then prints n, the registry the next run
\* reads holds n, and the same Add run again, from any directory, ends with
\* "preset already exists".
C9_FailedAddKeepsPreset ==
    [][(cmd'.op = "add" /\ PresetName(cmd'.name) /\ ~Exists(fs, PresetDir(cmd'.name)))
        => \A i \in 1..Len(cmd'.files) :
               SourceMissingAt(fs, cmd'.cwd, cmd'.name, cmd'.files, i)
               => /\ status' = "NotFound"
                  /\ IsDir(fs', PresetDir(cmd'.name))
                  /\ fs' = BeforeFile(fs, cmd'.cwd, cmd'.name, cmd'.files, i).fs
                  /\ \A j \in 1..(i - 1) :
                         (\A k \in 1..j : PlainFile(cmd'.files[k]))
                         => /\ IsFile(fs', PresetDir(cmd'.name) \o cmd'.files[j].comps)
                            /\ fs'[PresetDir(cmd'.name) \o cmd'.files[j].comps]
                                  = fs[cmd'.cwd \o cmd'.files[j].comps]
                  /\ \A order \in Orders :
                         LET located == Locate(fs').fs
                             presets == CurrentPresets(located, order)
                         IN  /\ Occurrences(ListedNames(fs', order), cmd'.name[1]) = 1
                             /\ Contains(presets, cmd'.name)
                             /\ \A cwd \in Cwds :
                                    Add(located, cwd, cmd'.name, cmd'.files,
                                        cmd'.directories, presets, order).err
                                        = "PresetExists"]_vars

\* C9 witness: a.txt was copied into the new preset p, then the missing
\* file stopped the add.
C9_Witness ==
    /\ pc = "done" /\ cmd.op = "add" /\ cmd.name = <<"p">> /\ cmd.cwd = WorkDir
    /\ cmd.files = <<Rel(<<"a.txt">>), Rel(<<"nope">>)>>
    /\ ~Contains(current_presets, <<"p">>)
    /\ status = "NotFound"
    /\ fs[<<"home", ".config", "cargo_preset", "p", "a.txt">>] = "hello"

\* C10: Add(n, ...) and Remove(n), for every name string n, change nothing
\* outside <store>/n: the store directory is not deleted, every other entry
\* of the store stays with the same contents, nothing is created outside
\* <store>/n, and the source files passed to Add keep their content.
C10_Frame ==
    [][(cmd'.op \in {"add", "remove"})
        => /\ Exists(fs, Store) => Exists(fs', Store)
           /\ \A m \in Children(fs, Store) :
                  m # Store \o cmd'.name
                  => /\ Exists(fs', m) /\ fs'[m] = fs[m]
                     /\ Subtree(fs', m) = Subtree(fs, m)
           /\ \A q \in DOMAIN fs' \ DOMAIN fs :
                  q = Store \/ IsPrefix(Store \o cmd'.name, q)
           /\ \A i \in 1..Len(cmd'.files) :
                  LET src == Resolve(fs, cmd'.cwd, cmd'.files[i])
                  IN  IsFile(fs, src) => IsFile(fs', src) /\ fs'[src] = fs[src]]_vars

====
